---- MODULE Spec2Model ----
(***************************************************************************)
(* Quality-controlled observation extraction of the ecmwf pipeline:        *)
(*   src/ecmwf-pipeline/src/data_processor.py     NetCDFReader             *)
(*   src/ecmwf-pipeline/src/quality_control.py    QualityControl           *)
(*   src/ecmwf-pipeline/src/ml_quality_control.py MLQualityControl         *)
(*                                                                         *)
(*   src/ecmwf-pipeline/src/data_processor.py     BUFREncoder              *)
(*   src/ecmwf-pipeline/bin/process_and_visualize.py  main                 *)
(*   src/ecmwf-pipeline/utils/ecmwf_data_retrieval.py ECMWFDataGenerator   *)
(*   src/ecmwf_data_retrieval.py                  ECMWFTestDataGenerator   *)
(*   src/ecmwf-pipeline/ecflow/pipeline.py        the ecFlow suite         *)
(*                                                                         *)
(* The specifications share the variables:                                 *)
(*   Spec      NetCDFReader.__init__ and one call of                       *)
(*             extract_surface_observations_with_stats on a dataset, a     *)
(*             variable map, a QC configuration and an ML QC object;       *)
(*   SpecQC    calls of QualityControl.check_surface_observation;          *)
(*   SpecML    MLQualityControl.__init__ followed by calls of              *)
(*             check_observation_anomaly;                                  *)
(*   SpecRerun two extraction calls of one reader on one dataset;          *)
(*   SpecEnc   calls of BUFREncoder.encode on one list and output path;    *)
(*   SpecMain  main() of process_and_visualize.py;                         *)
(*   SpecAcq   a data generator and its retrieve_surface_data calls;       *)
(*   SpecFlow  the suite: start, acquire, process_and_visualize.           *)
(* Times are whole hours since an epoch, so base_date + timedelta(hours=h) *)
(* is base_date + h.  Grid values are whole numbers (the float32 -> float  *)
(* widening of float(...) keeps the value).                                *)
(* A dataset is a grid: its four data variables are dimensioned (time,     *)
(* lat, lon) on the latitude and longitude axes, so t2m.size is the number *)
(* of index triples and indexing a cell inside the loops never raises.     *)
(* The content of a cell is chosen when the loop reads it (each cell is    *)
(* read once and the file is never written), and so is the classifier's    *)
(* answer to the observation built from it.                                *)
(***************************************************************************)
EXTENDS Integers, Sequences, FiniteSets, TLC

(***************************************************************************)
(* Bounds of the model.                                                    *)
(***************************************************************************)
\* largest number of time steps a dataset holds (one more than the code accepts)
MaxSteps == 5
\* largest number of latitude entries of a dataset
MaxLat == 2
\* largest number of longitude entries of a dataset
MaxLon == 2
\* largest number of grid points (steps * lat * lon) of a dataset that is walked
MaxPoints == 4
\* largest number of check calls made on one QC object
MaxChecks == 3

(***************************************************************************)
(* Program constants.                                                      *)
(***************************************************************************)
\* data_processor.py:80
possible_hours == <<0, 6, 12, 18>>

\* data_processor.py:48
fallbacks == [latitude |-> "lat", longitude |-> "lon"]

\* the names extraction resolves, in the order of data_processor.py:84-89
StandardNames == <<"latitude", "longitude", "temperature", "pressure", "u_wind", "v_wind">>

\* the value a missing observation key is read as (obs.get(key, 0)), quality_control.py:32-35
GetDefault == 0

VARIABLES
    \* ---- the dataset file (read-only input) ----
    ds_variables,   \* names of the variables the file holds
    ds_steps,       \* t2m.shape[0]
    ds_nlat,        \* len(lats)
    ds_nlon,        \* len(lons)
    file_exists,    \* self.filepath.exists()
    \* ---- NetCDFReader ----
    reader,         \* "unconstructed", "constructed", or "failed" when __init__ raised
    var_map,        \* self.var_map
    base_date,      \* self.base_date, in hours
    \* ---- QualityControl field ----
    params,         \* self.params: bound key -> [min, max]
    \* ---- MLQualityControl ----
    model_file,     \* what lies at model_path: "missing", "corrupt", "classifier", "empty"
    model,          \* self.model: "None", "classifier" (truthy) or "empty" (a falsy object)
    \* ---- one extraction call ----
    pc,             \* "ready", "loop", "returned", "raised"; "idle" outside Spec
    exc,            \* the exception that left the call: "none", "KeyError", "ValueError"
    resolved,       \* the dataset names of lats, lons, t2m, msl, u10, v10
    hours_to_process,
    t_idx, lat_idx, lon_idx,
    observations,   \* the list being built, and returned
    stats,          \* the stats dict being built, and returned
    \* ---- history of the call (not program state) ----
    evaluated,      \* one entry per grid point visited: index triple, obs_data, verdicts
    \* ---- single check calls (SpecQC, SpecML) ----
    call_obs,       \* the observation passed to the last check call
    call_result,    \* what the last call did: "none", "true", "false", "raised"
    call_response,  \* how the classifier answered in the last call
    ml_pc,          \* "new" before MLQualityControl.__init__, then "constructed"
    ncalls,         \* check calls made so far
    \* ---- two extraction calls (SpecRerun) ----
    run,            \* the number of the extraction call under way
    tape,           \* index triple -> cell and classifier answer read in the first call
    first,          \* what the first call returned
    \* ---- BUFREncoder.encode ----
    enc_pc,         \* "idle", "ready", "loop", "done", "raised"
    enc_exc,        \* the exception that left encode
    enc_type,       \* obs_type
    enc_input,      \* observations
    enc_i,          \* position of the for loop in the list, from 1
    out_file,       \* the file at output_file: [exists, content]
    file_open,      \* the handle f is open
    count,          \* count
    handles,        \* BUFR message handles created and not released
    reported,       \* the count the closing log line reports, -1 before
    records,        \* history: per record handled, the observation and what happened
    faults,         \* history: the I/O and library faults met: <<call, position, kind>>
    enc_calls,      \* encode calls started
    first_file,     \* history: the file after the first completed call
    file_at_call,   \* history: the file when the call under way was entered
    \* ---- main() ----
    main_pc,        \* "idle", "start", "extract", "encode", "visualize", "done", "exit1", "failed"
    plot,           \* the dashboard plot has been generated
    \* ---- data acquisition: ECMWFDataGenerator, ECMWFTestDataGenerator ----
    acq_version,    \* "pipeline" (utils/ecmwf_data_retrieval.py) or "standalone" (src/)
    use_real_data,  \* use_real_data, of the constructor or of the call
    api_available,  \* ECMWF_API_AVAILABLE
    cds_client,     \* self.cds_client: "None" or "client"
    acq_pc,         \* "idle", "new", "constructed", "download", "move", "fallback",
                    \* "synthetic", "cleanup", "done", "raised"
    acq_exc,        \* the exception on its way out of retrieve_surface_data
    nc_kind,        \* what lies at output_path: "none", "old", "real", "synthetic", "partial"
    temp_file,      \* the '.download' file exists
    acq_calls,      \* retrieve_surface_data calls started
    cds_uninit,     \* history: retrieve was invoked on a cds_client that is None
    real_failed,    \* history: the real retrieval of the call under way raised
    \* ---- the ecFlow suite ----
    task            \* the status of each task of the suite

dsvars == <<file_exists, ds_variables, ds_steps, ds_nlat, ds_nlon>>
cfgvars == <<var_map, base_date, params>>
readervars == <<reader>>
rerunvars == <<run, tape, first>>
encvars == <<enc_pc, enc_exc, enc_type, enc_input, enc_i, out_file, file_open, count,
             handles, reported, records, faults, enc_calls, first_file, file_at_call>>
mainvars == <<main_pc, plot>>
gridvars == <<ds_variables, ds_steps, ds_nlat, ds_nlon>>
acqvars == <<acq_version, use_real_data, api_available, cds_client, acq_pc, acq_exc, nc_kind,
             temp_file, acq_calls, cds_uninit, real_failed>>
flowvars == <<task>>
mlvars == <<model_file, model>>
loopvars == <<pc, exc, resolved, hours_to_process, t_idx, lat_idx, lon_idx, observations,
              stats, evaluated>>
callvars == <<call_obs, call_result, call_response, ml_pc, ncalls>>
vars == <<dsvars, cfgvars, readervars, mlvars, loopvars, callvars, rerunvars, encvars, mainvars,
          acqvars, flowvars>>

(***************************************************************************)
(* Input data: datasets, variable maps, QC configurations, observations.   *)
(***************************************************************************)
\* tests/test_processor.py:50-56
FullMap == [latitude |-> "latitude", longitude |-> "longitude", temperature |-> "t2m",
            pressure |-> "msl", u_wind |-> "u10", v_wind |-> "v10"]

\* a map that leaves the geographic names to the fallbacks
DataMap == [temperature |-> "t2m", pressure |-> "msl", u_wind |-> "u10", v_wind |-> "v10"]

VarMaps == {[surface |-> FullMap], [surface |-> DataMap]}

\* tests/test_processor.py:29-40, the same file with lat/lon names, with both, and without msl
DatasetNames ==
    { {"latitude", "longitude", "t2m", "msl", "u10", "v10"},
      {"lat", "lon", "t2m", "msl", "u10", "v10"},
      {"latitude", "longitude", "lat", "lon", "t2m", "msl", "u10", "v10"},
      {"latitude", "longitude", "t2m", "u10", "v10"} }

\* coordinate values of the axes: tests/test_processor.py:30-31
Lats(n) == [i \in 1..n |-> 49 + i]
Lons(n) == [j \in 1..n |-> j - 1]

\* tests/test_processor.py:19-22, with a bound for the wind components
TempBound == [min |-> 250, max |-> 320]
PresBound == [min |-> 95000, max |-> 105000]
WindBound == [min |-> -50, max |-> 50]

NoParams == [k \in {} |-> TempBound]
TestParams == [temperature_K |-> TempBound, pressure_Pa |-> PresBound]
AllParams == [temperature_K |-> TempBound, pressure_Pa |-> PresBound,
              wind_component_ms |-> WindBound]

\* every subset of the three bound keys configured
ParamSets ==
    { [k \in K |-> AllParams[k]] : K \in SUBSET {"temperature_K", "pressure_Pa", "wind_component_ms"} }

\* grid cells <<t2m, msl, u10, v10>>: in range, bad temperature, on the bounds, bad v wind
CellValues ==
    { <<290, 101000, 1, 1>>, <<100, 102000, 1, 1>>, <<320, 95000, -50, 50>>, <<305, 104000, 1, 51>> }

\* how the classifier answers predict(features)
Responses == {"inlier", "outlier", "raises"}

BaseDates == {48}

\* observations handed to single check calls: values below, on and above each bound
QCObservations ==
    [temperature : {249, 250, 320, 321}, pressure : {94999, 95000, 105001},
     u_wind : {-51, -50, 50}, v_wind : {-50, 50, 51}]
    \cup { [pressure |-> 101000, u_wind |-> 1, v_wind |-> 1],
           [temperature |-> 290, pressure |-> 101000] }

MLObservations ==
    { [temperature |-> 290, pressure |-> 101000, u_wind |-> 1, v_wind |-> 1],
      [temperature |-> 100, pressure |-> 90000, u_wind |-> 60, v_wind |-> 60],
      [temperature |-> 290, pressure |-> 101000, u_wind |-> 1],
      [pressure |-> 101000, u_wind |-> 1, v_wind |-> 1] }

NoObs == [k \in {} |-> 0]

(***************************************************************************)
(* QualityControl (quality_control.py).                                    *)
(***************************************************************************)
\* obs.get(key, 0)
Get(obs, key) == IF key \in DOMAIN obs THEN obs[key] ELSE GetDefault

\* _check_range with the lower bound excluded
MutStrict_check_range(value, key) ==
    IF key \notin DOMAIN params THEN TRUE
    ELSE IF ~(params[key].min < value /\ value <= params[key].max) THEN FALSE
    ELSE TRUE

_check_range(value, key) ==
    IF key \notin DOMAIN params THEN TRUE
    ELSE IF ~(params[key].min <= value /\ value <= params[key].max) THEN FALSE
    ELSE TRUE

check_surface_observation(obs) ==
    LET checks == [temperature_K |-> _check_range(Get(obs, "temperature"), "temperature_K"),
                   pressure_Pa   |-> _check_range(Get(obs, "pressure"), "pressure_Pa"),
                   u_wind_ms     |-> _check_range(Get(obs, "u_wind"), "wind_component_ms"),
                   v_wind_ms     |-> _check_range(Get(obs, "v_wind"), "wind_component_ms")]
    IN \A k \in DOMAIN checks : checks[k]

(***************************************************************************)
(* MLQualityControl (ml_quality_control.py).                               *)
(***************************************************************************)
\* joblib.load(model_path): the object in the file, or an exception
joblib_load(file) == IF file = "corrupt" THEN "raises" ELSE file

\* __init__ without the try around joblib.load
MutLoadUnguarded_init(file) ==
    IF file = "missing" THEN [model |-> "None", raised |-> FALSE]
    ELSE IF joblib_load(file) = "raises" THEN [model |-> "None", raised |-> TRUE]
    ELSE [model |-> joblib_load(file), raised |-> FALSE]

\* __init__: the model the instance ends with, and whether the constructor raised
MLQualityControl_init(file) ==
    IF file = "missing" THEN [model |-> "None", raised |-> FALSE]
    ELSE IF joblib_load(file) = "raises" THEN [model |-> "None", raised |-> FALSE]
    ELSE [model |-> joblib_load(file), raised |-> FALSE]

\* truth value of self.model: None and empty objects are false
Truthy(m) == m = "classifier"

\* obs['u_wind'], obs['v_wind'], obs['temperature'], obs['pressure'] all exist
FeaturesBuild(obs) == {"u_wind", "v_wind", "temperature", "pressure"} \subseteq DOMAIN obs

\* prediction[0] for a classifier that answers: 1 for inliers, -1 for outliers
Prediction(response) == IF response = "outlier" THEN -1 ELSE 1

\* check_observation_anomaly rejecting when the check itself fails
MutFailClosed_check(obs, response) ==
    IF ~Truthy(model) THEN "true"
    ELSE IF ~FeaturesBuild(obs) THEN "false"
    ELSE IF response = "raises" THEN "false"
    ELSE IF Prediction(response) = -1 THEN "false"
    ELSE "true"

\* the call's outcome: "true", "false", or "raised" when an exception leaves it
check_observation_anomaly(obs, response) ==
    IF ~Truthy(model) THEN "true"
    ELSE IF ~FeaturesBuild(obs) THEN "true"
    ELSE IF response = "raises" THEN "true"
    ELSE IF Prediction(response) = -1 THEN "false"
    ELSE "true"

\* self.model after a check call: the method assigns nothing
ModelAfterCheck == model

(***************************************************************************)
(* NetCDFReader (data_processor.py).                                       *)
(***************************************************************************)
\* __init__ without the existence check
MutNoExistsCheck_NetCDFReader_init(exists) == "constructed"

\* lines 25-39: the reader exists, or __init__ raised FileNotFoundError
NetCDFReader_init(exists) == IF ~exists THEN "failed" ELSE "constructed"

\* _get_var trying the fallback names before the configured name
MutFallbackFirst_get_var(standard_name, obs_type) ==
    LET section == var_map[obs_type]
        provider_var_name == IF standard_name \in DOMAIN section
                             THEN section[standard_name] ELSE "None"
    IN IF standard_name \in DOMAIN fallbacks /\ fallbacks[standard_name] \in ds_variables
       THEN fallbacks[standard_name]
       ELSE IF provider_var_name # "None" /\ provider_var_name \in ds_variables
       THEN provider_var_name
       ELSE "KeyError"

\* the dataset's variable name for standard_name, or "KeyError"
_get_var(standard_name, obs_type) ==
    LET section == var_map[obs_type]
        provider_var_name == IF standard_name \in DOMAIN section
                             THEN section[standard_name] ELSE "None"
    IN IF provider_var_name # "None" /\ provider_var_name \in ds_variables
       THEN provider_var_name
       ELSE IF standard_name \in DOMAIN fallbacks /\ fallbacks[standard_name] \in ds_variables
       THEN fallbacks[standard_name]
       ELSE "KeyError"

\* lines 84-89: every name resolves
AllResolve ==
    \A n \in 1..Len(StandardNames) : _get_var(StandardNames[n], "surface") # "KeyError"

\* lines 84-89: the variables lats, lons, t2m, msl, u10, v10 are read from
Resolved == [n \in 1..Len(StandardNames) |-> _get_var(StandardNames[n], "surface")]

\* the list of a call that kept the list of the call before
MutStale_NewObservations == observations

\* line 67
NewObservations == <<>>

\* the time-step check letting one step too many through
MutOffByOne_TooManySteps == ds_steps > Len(possible_hours) + 1

\* line 94
TooManySteps == ds_steps > Len(possible_hours)

\* the last hours of the list taken instead of the first
MutLastHours_HoursToProcess ==
    SubSeq(possible_hours,
           IF ds_steps < Len(possible_hours) THEN Len(possible_hours) - ds_steps + 1 ELSE 1,
           Len(possible_hours))

\* line 98: possible_hours[:num_steps_in_file]; a slice ends at the list's end at the latest
HoursToProcess ==
    SubSeq(possible_hours, 1,
           IF ds_steps < Len(possible_hours) THEN ds_steps ELSE Len(possible_hours))

\* the size of one time step taken for the size of the variable
MutOneStep_t2m_size == ds_nlat * ds_nlon

\* the number of time steps taken for the size of the variable
MutStepsOnly_t2m_size == ds_steps

\* line 102: t2m.size, the dataset's variables being dimensioned (time, lat, lon)
t2m_size == ds_steps * ds_nlat * ds_nlon

EmptyStats ==
    [obs_initial_count |-> 0, obs_pass_physical_qc |-> 0, obs_fail_physical_qc |-> 0,
     obs_pass_ml_qc |-> 0, obs_fail_ml_qc |-> 0, obs_final_count |-> 0]

\* lines 108-114
BuildObs(t, i, j, cell) ==
    [latitude |-> Lats(ds_nlat)[i + 1], longitude |-> Lons(ds_nlon)[j + 1],
     time |-> base_date + hours_to_process[t + 1],
     temperature |-> cell[1], pressure |-> cell[2], u_wind |-> cell[3], v_wind |-> cell[4]]

\* the counters with an ML rejection left uncounted
MutSilentMlFail_CountQC(st, physical, ml) ==
    IF physical
    THEN IF ml = "true"
         THEN [st EXCEPT !.obs_pass_physical_qc = @ + 1, !.obs_pass_ml_qc = @ + 1]
         ELSE [st EXCEPT !.obs_pass_physical_qc = @ + 1]
    ELSE [st EXCEPT !.obs_fail_physical_qc = @ + 1]

\* a physical rejection setting its counter instead of adding to it
MutSetFail_CountQC(st, physical, ml) ==
    IF physical
    THEN IF ml = "true"
         THEN [st EXCEPT !.obs_pass_physical_qc = @ + 1, !.obs_pass_ml_qc = @ + 1]
         ELSE [st EXCEPT !.obs_pass_physical_qc = @ + 1, !.obs_fail_ml_qc = @ + 1]
    ELSE [st EXCEPT !.obs_fail_physical_qc = 1]

\* lines 117-126: the counters after one point's checks
CountQC(st, physical, ml) ==
    IF physical
    THEN IF ml = "true"
         THEN [st EXCEPT !.obs_pass_physical_qc = @ + 1, !.obs_pass_ml_qc = @ + 1]
         ELSE [st EXCEPT !.obs_pass_physical_qc = @ + 1, !.obs_fail_ml_qc = @ + 1]
    ELSE [st EXCEPT !.obs_fail_physical_qc = @ + 1]

\* the observation kept on the physical verdict alone
MutPhysicalOnly_Keep(physical, ml) == physical

\* lines 117-122: the observation is appended
Keep(physical, ml) == physical /\ ml = "true"

\* the latitude loop nested inside the longitude loop
MutLonOuter_NextIndex(t, i, j) ==
    IF i + 1 < ds_nlat THEN <<t, i + 1, j>>
    ELSE IF j + 1 < ds_nlon THEN <<t, 0, j + 1>>
    ELSE <<t + 1, 0, 0>>

\* lines 104-107: the index triple the nested loops visit after <<t, i, j>>
NextIndex(t, i, j) ==
    IF j + 1 < ds_nlon THEN <<t, i, j + 1>>
    ELSE IF i + 1 < ds_nlat THEN <<t, i + 1, 0>>
    ELSE <<t + 1, 0, 0>>

\* the loops have no further point to visit
LoopDone == t_idx >= Len(hours_to_process) \/ ds_nlat = 0 \/ ds_nlon = 0

\* the final count taken from the physical pass counter
MutPassCount_FinalCount == stats.obs_pass_physical_qc

\* line 128
FinalCount == Len(observations)

\* nothing of a second extraction call, of encode or of main() is under way
NoRerun == run = 1 /\ tape = <<>> /\ first = <<>>

NoFile == [exists |-> FALSE, content |-> <<>>]

NoEncode ==
    /\ enc_pc = "idle" /\ enc_exc = "none" /\ enc_type = "surface" /\ enc_input = <<>>
    /\ enc_i = 1 /\ out_file = NoFile /\ file_open = FALSE
    /\ count = 0 /\ handles = 0 /\ reported = -1 /\ records = <<>> /\ faults = {}
    /\ enc_calls = 0 /\ first_file = NoFile /\ file_at_call = NoFile

NoMain == main_pc = "idle" /\ plot = FALSE

TaskNames == {"start", "acquire", "process_and_visualize"}

NoAcquire ==
    /\ acq_version = "pipeline" /\ use_real_data = FALSE /\ api_available = FALSE
    /\ cds_client = "None" /\ acq_pc = "idle" /\ acq_exc = "none"
    /\ nc_kind = IF file_exists THEN "old" ELSE "none"
    /\ temp_file = FALSE /\ acq_calls = 0 /\ cds_uninit = FALSE /\ real_failed = FALSE

NoFlow == task = [t \in TaskNames |-> "unloaded"]

\* neither an acquisition nor the suite is under way
Standalone == NoAcquire /\ NoFlow

\* lines 25-39: NetCDFReader(filepath, var_map, qc, base_date)
ConstructReader ==
    /\ reader = "unconstructed"
    /\ reader' = NetCDFReader_init(file_exists)
    /\ exc' = IF NetCDFReader_init(file_exists) = "failed" THEN "FileNotFoundError" ELSE exc
    /\ UNCHANGED <<dsvars, acqvars, flowvars,
                   cfgvars, mlvars, pc, resolved, hours_to_process, t_idx, lat_idx,
                   lon_idx, observations, stats, evaluated, callvars, rerunvars, encvars,
                   mainvars>>

\* lines 67-102: locals, variable resolution, the time-step check, the initial count
ExtractBegin ==
    /\ pc = "ready" /\ reader = "constructed"
    /\ IF ~AllResolve
       THEN /\ pc' = "raised" /\ exc' = "KeyError"
            /\ UNCHANGED <<resolved, hours_to_process, stats>>
       ELSE IF TooManySteps
       THEN /\ pc' = "raised" /\ exc' = "ValueError"
            /\ resolved' = Resolved
            /\ UNCHANGED <<hours_to_process, stats>>
       ELSE /\ pc' = "loop" /\ exc' = "none"
            /\ resolved' = Resolved
            /\ hours_to_process' = HoursToProcess
            /\ stats' = [EmptyStats EXCEPT !.obs_initial_count = t2m_size]
    /\ observations' = NewObservations
    /\ t_idx' = 0 /\ lat_idx' = 0 /\ lon_idx' = 0
    /\ UNCHANGED <<dsvars, acqvars, flowvars,
                   cfgvars, readervars, mlvars, evaluated, callvars, rerunvars,
                   encvars, mainvars>>

\* the ML check run on every point
MutEveryPoint_RunsMlCheck(physical) == TRUE

\* line 117: the ML check is called inside the branch of a passed physical check
RunsMlCheck(physical) == physical

\* the observation as appended with its temperature converted to Celsius in place
MutInPlace_ObsAfterChecks(obs) == [obs EXCEPT !.temperature = @ - 273]

\* lines 117-121: the checks read obs_data, and append keeps the dict as it is
ObsAfterChecks(obs) == obs

\* lines 104-126: one pass of the innermost loop body, on the cell read from the file
\* and the answer of the classifier
ProcessPointWith(cell, response) ==
    /\ pc = "loop" /\ ~LoopDone
    /\ LET obs_data == BuildObs(t_idx, lat_idx, lon_idx, cell)
           physical == check_surface_observation(obs_data)
           ml == IF RunsMlCheck(physical) THEN check_observation_anomaly(obs_data, response)
                 ELSE "not_run"
       IN /\ stats' = CountQC(stats, physical, ml)
          /\ observations' = IF Keep(physical, ml)
                             THEN Append(observations, ObsAfterChecks(obs_data))
                             ELSE observations
          /\ evaluated' = Append(evaluated,
                 [index |-> <<t_idx, lat_idx, lon_idx>>, obs |-> obs_data,
                  physical |-> physical, ml |-> ml])
    /\ LET n == NextIndex(t_idx, lat_idx, lon_idx)
       IN t_idx' = n[1] /\ lat_idx' = n[2] /\ lon_idx' = n[3]
    /\ UNCHANGED <<dsvars, acqvars, flowvars,
                   cfgvars, readervars, mlvars, pc, exc, resolved, hours_to_process,
                   callvars, encvars, mainvars>>

ProcessPoint ==
    /\ \E cell \in CellValues, response \in Responses : ProcessPointWith(cell, response)
    /\ UNCHANGED rerunvars

\* lines 128-130
ExtractReturn ==
    /\ pc = "loop" /\ LoopDone
    /\ stats' = [stats EXCEPT !.obs_final_count = FinalCount]
    /\ pc' = "returned"
    /\ UNCHANGED <<dsvars, acqvars, flowvars,
                   cfgvars, readervars, mlvars, exc, resolved, hours_to_process,
                   t_idx, lat_idx, lon_idx, observations, evaluated, callvars, rerunvars,
                   encvars, mainvars>>

\* the state of a dataset file, a reader and its collaborators before the reader is made
ExtractionInputs ==
    /\ file_exists \in BOOLEAN
    /\ IF file_exists
       THEN /\ ds_variables \in DatasetNames
            /\ ds_steps \in 0..MaxSteps
            /\ ds_nlat \in 0..MaxLat
            /\ ds_nlon \in 0..MaxLon
            /\ ds_steps > Len(possible_hours) \/ ds_steps * ds_nlat * ds_nlon <= MaxPoints
       ELSE ds_variables = {} /\ ds_steps = 0 /\ ds_nlat = 0 /\ ds_nlon = 0
    /\ var_map \in VarMaps
    /\ base_date \in BaseDates
    /\ params \in {NoParams, TestParams, AllParams}
    /\ model_file \in {"missing", "classifier"}
    /\ model = MLQualityControl_init(model_file).model
    /\ reader = "unconstructed"
    /\ pc = "ready" /\ exc = "none"
    /\ resolved = <<>>
    /\ hours_to_process = <<>>
    /\ t_idx = 0 /\ lat_idx = 0 /\ lon_idx = 0
    /\ observations = <<>> /\ stats = EmptyStats
    /\ evaluated = <<>>
    /\ call_obs = NoObs /\ call_result = "none" /\ call_response = "none"
    /\ ml_pc = "constructed" /\ ncalls = 0

Init == ExtractionInputs /\ NoRerun /\ NoEncode /\ NoMain /\ Standalone

Next == ConstructReader \/ ExtractBegin \/ ProcessPoint \/ ExtractReturn

Spec == Init /\ [][Next]_vars

(***************************************************************************)
(* SpecQC: check_surface_observation called on single observations.        *)
(***************************************************************************)
\* the state shared by the single-call specifications: no extraction under way
NoExtraction ==
    /\ file_exists = FALSE
    /\ ds_variables = {} /\ ds_steps = 0 /\ ds_nlat = 0 /\ ds_nlon = 0
    /\ var_map = [surface |-> FullMap] /\ base_date = 0
    /\ reader = "unconstructed"
    /\ pc = "idle" /\ exc = "none"
    /\ resolved = <<>>
    /\ hours_to_process = <<>>
    /\ t_idx = 0 /\ lat_idx = 0 /\ lon_idx = 0
    /\ observations = <<>> /\ stats = EmptyStats
    /\ evaluated = <<>>

InitQC ==
    /\ NoExtraction /\ NoRerun /\ NoEncode /\ NoMain /\ Standalone
    /\ params \in ParamSets
    /\ model_file = "missing" /\ model = "None" /\ ml_pc = "new"
    /\ call_obs = NoObs /\ call_result = "none" /\ call_response = "none"
    /\ ncalls = 0

\* quality_control.py:26-39, on any observation
CallCheckSurface ==
    /\ \E obs \in QCObservations :
         /\ call_obs' = obs
         /\ call_result' = IF check_surface_observation(obs) THEN "true" ELSE "false"
    /\ UNCHANGED <<dsvars, acqvars, flowvars,
                   cfgvars, readervars, mlvars, loopvars, call_response, ml_pc, ncalls,
                   rerunvars, encvars, mainvars>>

NextQC == CallCheckSurface

SpecQC == InitQC /\ [][NextQC]_vars

(***************************************************************************)
(* SpecML: an MLQualityControl is constructed on a model path and then     *)
(* asked about observations.                                               *)
(***************************************************************************)
InitML ==
    /\ NoExtraction /\ NoRerun /\ NoEncode /\ NoMain /\ Standalone
    /\ params = NoParams
    /\ model_file \in {"missing", "corrupt", "classifier", "empty"}
    /\ model = "None" /\ ml_pc = "new"
    /\ call_obs = NoObs /\ call_result = "none" /\ call_response = "none"
    /\ ncalls = 0

\* ml_quality_control.py:13-22
ConstructMLQC ==
    /\ ml_pc = "new"
    /\ LET r == MLQualityControl_init(model_file)
       IN /\ model' = r.model
          /\ ml_pc' = IF r.raised THEN "raised" ELSE "constructed"
    /\ UNCHANGED <<dsvars, acqvars, flowvars,
                   cfgvars, readervars, rerunvars, encvars, mainvars, model_file,
                   loopvars, call_obs, call_result,
                   call_response, ncalls>>

\* ml_quality_control.py:24-55, on any observation and any answer of the classifier
CallCheckAnomaly ==
    /\ ml_pc = "constructed" /\ ncalls < MaxChecks
    /\ \E obs \in MLObservations, response \in Responses :
         /\ call_obs' = obs
         /\ call_response' = response
         /\ call_result' = check_observation_anomaly(obs, response)
    /\ model' = ModelAfterCheck
    /\ ncalls' = ncalls + 1
    /\ UNCHANGED <<dsvars, acqvars, flowvars,
                   cfgvars, readervars, rerunvars, encvars, mainvars, model_file,
                   loopvars, ml_pc>>

NextML == ConstructMLQC \/ CallCheckAnomaly

SpecML == InitML /\ [][NextML]_vars

(***************************************************************************)
(* Properties of extraction (Spec).                                        *)
(***************************************************************************)
Returned == pc = "returned"

\* C1: whenever extract_surface_observations_with_stats has returned, the stats satisfy
\* obs_pass_physical_qc + obs_fail_physical_qc = obs_initial_count.
C1_PhysicalCountsAddUp ==
    Returned => stats.obs_pass_physical_qc + stats.obs_fail_physical_qc
                    = stats.obs_initial_count

C1_Witness ==
    /\ Returned /\ ds_steps > 1
    /\ stats.obs_pass_physical_qc > 0 /\ stats.obs_fail_physical_qc > 0
    /\ stats.obs_fail_ml_qc > 0

\* C2: whenever extraction has returned, obs_pass_ml_qc + obs_fail_ml_qc =
\* obs_pass_physical_qc.
C2_MlCountsAddUp ==
    Returned => stats.obs_pass_ml_qc + stats.obs_fail_ml_qc = stats.obs_pass_physical_qc

C2_Witness ==
    /\ Returned
    /\ stats.obs_pass_ml_qc > 0 /\ stats.obs_fail_ml_qc > 0
    /\ stats.obs_fail_physical_qc > 0

\* C3: whenever extraction has returned, obs_final_count = obs_pass_ml_qc = the length
\* of the returned observation list.
C3_FinalCountIsListLength ==
    Returned => /\ stats.obs_final_count = stats.obs_pass_ml_qc
                /\ stats.obs_final_count = Len(observations)

C3_Witness ==
    /\ Returned
    /\ Len(observations) > 1
    /\ Len(observations) < stats.obs_pass_physical_qc
    /\ stats.obs_pass_physical_qc < stats.obs_initial_count

\* the index triple an observation was built at, read back from its time and coordinates
IndexOf(obs) ==
    << CHOOSE t \in 0..(Len(possible_hours) - 1) : base_date + possible_hours[t + 1] = obs.time,
       CHOOSE i \in 0..(ds_nlat - 1) : Lats(ds_nlat)[i + 1] = obs.latitude,
       CHOOSE j \in 0..(ds_nlon - 1) : Lons(ds_nlon)[j + 1] = obs.longitude >>

LexLess(a, b) ==
    \/ a[1] < b[1]
    \/ a[1] = b[1] /\ a[2] < b[2]
    \/ a[1] = b[1] /\ a[2] = b[2] /\ a[3] < b[3]

\* C4: the observation list is ordered by (timestep, latitude index, longitude index)
\* ascending, timestep outermost: of two retained observations the one with the
\* lexicographically smaller index triple comes first, and no triple appears twice;
\* the points are visited in that order too.
C4_OutputInIndexOrder ==
    /\ \A m, n \in 1..Len(observations) :
         m < n => LexLess(IndexOf(observations[m]), IndexOf(observations[n]))
    /\ \A m, n \in 1..Len(evaluated) :
         m < n => LexLess(evaluated[m].index, evaluated[n].index)

C4_Witness ==
    /\ Returned /\ ds_nlat > 1 /\ ds_nlon > 1
    /\ Len(observations) = 3 /\ Len(evaluated) = 4

\* the index space of the dataset
IndexSpace == (0..(ds_steps - 1)) \X (0..(ds_nlat - 1)) \X (0..(ds_nlon - 1))

BothAccepted(e) == e.physical /\ e.ml = "true"

ObsOf(entries) == [n \in 1..Len(entries) |-> entries[n].obs]

\* min <= value <= max for every configured bound of the four variables
InRange(value, key) ==
    key \in DOMAIN params => (params[key].min <= value /\ value <= params[key].max)

WithinBounds(e) ==
    /\ InRange(e.obs.temperature, "temperature_K")
    /\ InRange(e.obs.pressure, "pressure_Pa")
    /\ InRange(e.obs.u_wind, "wind_component_ms")
    /\ InRange(e.obs.v_wind, "wind_component_ms")

\* C5: extraction evaluates every grid point, and a point's observation is in the returned
\* list exactly if the physical check and the ML check both accepted it; when the ML
\* stage accepts everything (no model), the survivors are exactly the points within all
\* configured bounds and obs_fail_ml_qc = 0.
C5_KeptIffBothAccepted ==
    /\ observations = ObsOf(SelectSeq(evaluated, BothAccepted))
    /\ Returned =>
         /\ {evaluated[n].index : n \in 1..Len(evaluated)} = IndexSpace
         /\ Len(evaluated) = Cardinality(IndexSpace)
         /\ ~Truthy(model) =>
              /\ observations = ObsOf(SelectSeq(evaluated, WithinBounds))
              /\ stats.obs_fail_ml_qc = 0

C5_Witness ==
    /\ Returned /\ Len(evaluated) = 4
    /\ \E n \in 1..4 : ~evaluated[n].physical
    /\ \E n \in 1..4 : evaluated[n].ml = "false"
    /\ Len(observations) = 2

\* C6 as stated: more than 4 time steps make extraction fail with ValueError before any
\* QC check, and nothing is returned.
C6_TooManyStepsValueError ==
    (ds_steps > 4 /\ pc \notin {"ready", "idle"}) =>
        /\ pc = "raised" /\ exc = "ValueError"
        /\ evaluated = <<>>

\* C6, amended: with more than 4 time steps extraction fails before any QC check and
\* returns nothing; the error is ValueError when all six variables resolve, and the
\* KeyError of variable resolution, which comes first, when one does not.
C6_TooManyStepsFailsBeforeQC ==
    (ds_steps > 4 /\ pc \notin {"ready", "idle"}) =>
        /\ pc = "raised"
        /\ evaluated = <<>> /\ observations = <<>> /\ stats = EmptyStats
        /\ (\A n \in 1..6 : _get_var(StandardNames[n], "surface") \in ds_variables)
               => exc = "ValueError"
        /\ (\E n \in 1..6 : _get_var(StandardNames[n], "surface") \notin ds_variables)
               => exc = "KeyError"

C6_Witness == ds_steps > 4 /\ pc = "raised" /\ exc = "ValueError"

\* C7: with N <= 4 time steps extraction processes exactly the first N canonical hours,
\* matched by position: an observation built at time index i carries base_date +
\* possible_hours[i], none is built for a position >= N, and a call that returns has
\* walked the time indices 0..N-1.
C7_FirstHoursByPosition ==
    ds_steps <= 4 =>
        /\ \A n \in 1..Len(evaluated) :
             /\ evaluated[n].index[1] < ds_steps
             /\ evaluated[n].obs.time
                    = base_date + <<0, 6, 12, 18>>[evaluated[n].index[1] + 1]
        /\ (Returned /\ ds_nlat > 0 /\ ds_nlon > 0) =>
             {evaluated[n].index[1] : n \in 1..Len(evaluated)} = 0..(ds_steps - 1)

C7_Witness ==
    /\ Returned /\ ds_steps = 2
    /\ Len(observations) = 2
    /\ observations[1].time = base_date /\ observations[2].time = base_date + 6

(***************************************************************************)
(* Properties of the physical check (SpecQC).                              *)
(***************************************************************************)
FullObs(obs) == DOMAIN obs = {"temperature", "pressure", "u_wind", "v_wind"}

Passes(value, key) ==
    \/ key \notin DOMAIN params
    \/ params[key].min <= value /\ value <= params[key].max

\* C8: check_surface_observation returns true exactly if each of temperature, pressure,
\* u_wind and v_wind either has no bound configured under its key (temperature_K,
\* pressure_Pa, wind_component_ms for both winds) or lies in [min, max], both ends
\* included.
C8_InclusiveBoundsOrUnconfigured ==
    (call_result # "none" /\ FullObs(call_obs)) =>
        (call_result = "true" <=>
            /\ Passes(call_obs.temperature, "temperature_K")
            /\ Passes(call_obs.pressure, "pressure_Pa")
            /\ Passes(call_obs.u_wind, "wind_component_ms")
            /\ Passes(call_obs.v_wind, "wind_component_ms"))

C8_Witness ==
    /\ call_result = "true"
    /\ DOMAIN params = {"temperature_K", "wind_component_ms"}
    /\ FullObs(call_obs)
    /\ call_obs.temperature = params["temperature_K"].min
    /\ call_obs.v_wind = params["wind_component_ms"].max
    /\ call_obs.pressure = 94999

(***************************************************************************)
(* Properties of the ML check (SpecML).                                    *)
(***************************************************************************)
Called == call_result # "none"

\* C9: check_observation_anomaly returns false only when a loaded model classifies the
\* observation as an outlier; it returns true for an inlier, without a model, and when
\* building the features or classifying raises; it never raises.
C9_FalseOnlyOnOutlier ==
    Called =>
        /\ call_result \in {"true", "false"}
        /\ call_result = "false" =>
             model = "classifier" /\ FeaturesBuild(call_obs) /\ call_response = "outlier"
        /\ call_response = "inlier" => call_result = "true"
        /\ model = "None" => call_result = "true"
        /\ (call_response = "raises" \/ ~FeaturesBuild(call_obs)) => call_result = "true"

C9_Witness ==
    /\ Called /\ model = "classifier"
    /\ call_response = "raises" /\ FeaturesBuild(call_obs)
    /\ call_result = "true"

\* C10: constructing MLQualityControl on a missing or unloadable model file does not
\* raise, and afterwards the model stays unloaded and every check returns true.
C10_LoadFailureDisablesForGood ==
    (model_file \in {"missing", "corrupt"} /\ ml_pc # "new") =>
        /\ ml_pc = "constructed"
        /\ model = "None"
        /\ Called => call_result = "true"

C10_Witness ==
    /\ model_file = "corrupt" /\ ml_pc = "constructed"
    /\ ncalls > 1
    /\ call_response = "outlier" /\ FeaturesBuild(call_obs)
    /\ call_result = "true"

(***************************************************************************)
(* Properties of variable resolution and of the reader (Spec).             *)
(***************************************************************************)
\* the name the variable map configures for a standard name is a variable of the dataset
ConfiguredAndPresent(name) ==
    /\ name \in DOMAIN var_map["surface"]
    /\ var_map["surface"][name] \in ds_variables

AliasOf(name) == IF name = "latitude" THEN "lat" ELSE IF name = "longitude" THEN "lon" ELSE "no alias"

Unresolvable(name) == ~ConfiguredAndPresent(name) /\ AliasOf(name) \notin ds_variables

\* C18: _get_var returns the configured variable when it is configured and present in the
\* dataset, otherwise the alias (latitude -> lat, longitude -> lon) when that is present,
\* otherwise it raises KeyError and extraction fails before any observation is built.
C18_ConfiguredThenAliasThenKeyError ==
    /\ (pc \in {"loop", "returned"} \/ (pc = "raised" /\ exc = "ValueError")) =>
         \A k \in 1..6 :
            LET name == StandardNames[k]
            IN IF ConfiguredAndPresent(name)
               THEN resolved[k] = var_map["surface"][name]
               ELSE resolved[k] = AliasOf(name) /\ resolved[k] \in ds_variables
    /\ (pc # "ready" /\ \E k \in 1..6 : Unresolvable(StandardNames[k])) =>
         /\ pc = "raised" /\ exc = "KeyError"
         /\ evaluated = <<>> /\ observations = <<>>

C18_Witness ==
    /\ pc = "returned" /\ Len(observations) > 0
    /\ "latitude" \in DOMAIN var_map["surface"] /\ "latitude" \notin ds_variables
    /\ resolved[1] = "lat" /\ resolved[3] = "t2m"

\* C19: constructing NetCDFReader on a path that does not exist raises FileNotFoundError:
\* there is no reader, and no extraction is ever started on it.
C19_MissingFileNoReader ==
    /\ (~file_exists /\ reader # "unconstructed") =>
         /\ reader = "failed" /\ exc = "FileNotFoundError"
         /\ pc = "ready" /\ evaluated = <<>>
    /\ pc # "ready" => (file_exists /\ reader = "constructed")

C19_Witness == ~file_exists /\ reader = "failed" /\ exc = "FileNotFoundError"

(***************************************************************************)
(* BUFREncoder (data_processor.py:132-214).                                *)
(*                                                                         *)
(* A BUFR message is modelled by the keys the builder sets on the handle   *)
(* and their values; the output file by the sequence of messages in it.    *)
(* The environment may fail an open, a write, a release or a close; at     *)
(* most MaxFaults such faults happen in one behaviour.                     *)
(***************************************************************************)
\* the longest list passed to encode
MaxBatch == 3
\* the number of encode calls made on the same list, path and type
MaxEncodes == 2
\* the number of environment faults in one behaviour
MaxFaults == 1

\* line 143: the keys of encoder_map
encoder_map == {"surface", "upper_air"}

\* every obs_type let through
MutAcceptAll_UnknownType(obs_type) == FALSE

\* line 144
UnknownType(obs_type) == obs_type \notin encoder_map

ObsTypes == {"surface", "upper_air", "synop"}

\* what a builder leaves when a key is missing: a handle, and no message
NoMessage == [sample |-> "none"]

\* lines 168-198
_encode_surface(obs) ==
    IF {"latitude", "longitude", "time", "temperature", "pressure", "u_wind", "v_wind"}
          \subseteq DOMAIN obs
    THEN [handle |-> TRUE, built |-> TRUE,
          msg |-> [sample |-> "BUFR4_local", latitude |-> obs.latitude,
                   longitude |-> obs.longitude, time |-> obs.time,
                   airTemperature |-> obs.temperature,
                   nonCoordinatePressure |-> obs.pressure,
                   u |-> obs.u_wind, v |-> obs.v_wind]]
    ELSE [handle |-> TRUE, built |-> FALSE, msg |-> NoMessage]

LevelKeys == {"pressure", "temperature", "u_wind", "v_wind"}

\* lines 200-214
_encode_upper_air(obs) ==
    IF /\ {"profile", "time", "latitude", "longitude"} \subseteq DOMAIN obs
       /\ \A k \in 1..Len(obs.profile) : LevelKeys \subseteq DOMAIN obs.profile[k]
    THEN [handle |-> TRUE, built |-> TRUE,
          msg |-> [sample |-> "BUFR4", time |-> obs.time, latitude |-> obs.latitude,
                   longitude |-> obs.longitude,
                   delayedDescriptorReplicationFactor |-> Len(obs.profile),
                   pressure |-> [k \in 1..Len(obs.profile) |-> obs.profile[k].pressure],
                   airTemperature |-> [k \in 1..Len(obs.profile) |-> obs.profile[k].temperature],
                   uComponentOfWind |-> [k \in 1..Len(obs.profile) |-> obs.profile[k].u_wind],
                   vComponentOfWind |-> [k \in 1..Len(obs.profile) |-> obs.profile[k].v_wind]]]
    ELSE [handle |-> TRUE, built |-> FALSE, msg |-> NoMessage]

\* line 154: encoder_map[obs_type](obs); a type that is no key raises before any handle
Encoder(obs_type, obs) ==
    IF obs_type = "surface" THEN _encode_surface(obs)
    ELSE IF obs_type = "upper_air" THEN _encode_upper_air(obs)
    ELSE [handle |-> FALSE, built |-> FALSE, msg |-> NoMessage]

\* the file opened for appending
MutAppend_open_wb(file) == [exists |-> TRUE, content |-> file.content]

\* line 149: open(output_file, 'wb') creates the file or truncates it
open_wb(file) == [exists |-> TRUE, content |-> <<>>]

\* the handle left open when an exception leaves the block
MutNoWith_OpenAfterException == file_open

\* line 149: the with statement closes f when an exception leaves its block
OpenAfterException == FALSE

\* the count log line reporting the number of records seen
MutSeen_ReportedCount == Len(records)

\* line 163
ReportedCount == count

\* ---- inputs of encode ----
SurfaceObs(temp) ==
    [latitude |-> 50, longitude |-> 0, time |-> 48, temperature |-> temp,
     pressure |-> 101000, u_wind |-> 1, v_wind |-> -1]

\* an observation without its pressure
MalformedObs ==
    [latitude |-> 50, longitude |-> 0, time |-> 48, temperature |-> 280, u_wind |-> 1, v_wind |-> -1]

UpperAirObs ==
    [latitude |-> 50, longitude |-> 0, time |-> 48,
     profile |-> <<[pressure |-> 85000, temperature |-> 270, u_wind |-> 5, v_wind |-> 0]>>]

\* a sounding whose second level has no u_wind
RaggedObs ==
    [latitude |-> 50, longitude |-> 0, time |-> 48,
     profile |-> <<[pressure |-> 85000, temperature |-> 270, u_wind |-> 5, v_wind |-> 0],
                   [pressure |-> 50000, temperature |-> 250, v_wind |-> 0]>>]

EncObservations == {SurfaceObs(280), SurfaceObs(290), MalformedObs, UpperAirObs, RaggedObs}

Batches == UNION {[1..n -> EncObservations] : n \in 0..MaxBatch}

StaleFile == [exists |-> TRUE, content |-> <<[sample |-> "stale"]>>]

MayFault == IF Cardinality(faults) < MaxFaults THEN {TRUE, FALSE} ELSE {FALSE}

Fault(kind) == faults \cup {<<enc_calls, enc_i, kind>>}

\* an exception of the builder re-raised out of the loop
MutReraise_ExceptException == "raised"

\* lines 157-158: except Exception logs the failure, and the loop goes on
ExceptException == "loop"

\* what encode does not touch
notencvars == <<dsvars, acqvars, flowvars, cfgvars, readervars, mlvars, loopvars, callvars, rerunvars, mainvars>>

\* lines 143-149: the type check, then open(output_file, 'wb')
EncodeBegin ==
    /\ enc_pc = "ready"
    /\ enc_calls' = enc_calls + 1
    /\ file_at_call' = out_file
    /\ records' = <<>> /\ reported' = -1 /\ enc_i' = 1
    /\ IF UnknownType(enc_type)
       THEN /\ enc_pc' = "raised" /\ enc_exc' = "ValueError"
            /\ UNCHANGED <<out_file, file_open, count, faults>>
       ELSE /\ count' = 0
            /\ \E failed \in MayFault :
                 IF failed
                 THEN /\ enc_pc' = "raised" /\ enc_exc' = "IOError"
                      /\ faults' = faults \cup {<<enc_calls + 1, 0, "open">>}
                      /\ UNCHANGED <<out_file, file_open>>
                 ELSE /\ enc_pc' = "loop" /\ enc_exc' = "none"
                      /\ out_file' = open_wb(out_file) /\ file_open' = TRUE
                      /\ faults' = faults
    /\ UNCHANGED <<enc_type, enc_input, handles, first_file, notencvars>>

\* lines 150-162: one pass of the for loop
EncodeRecord ==
    /\ enc_pc = "loop" /\ enc_i <= Len(enc_input)
    /\ LET obs == enc_input[enc_i]
           b == Encoder(enc_type, obs)
       IN IF ~b.built
          THEN \* the builder raised: bufr_msg_handle is still None, nothing is released
               /\ records' = Append(records, [obs |-> obs, built |-> FALSE,
                                              written |-> FALSE, msg |-> b.msg])
               /\ handles' = handles + (IF b.handle THEN 1 ELSE 0)
               /\ enc_pc' = ExceptException
               /\ IF ExceptException = "loop"
                  THEN enc_i' = enc_i + 1 /\ UNCHANGED <<enc_exc, file_open>>
                  ELSE enc_exc' = "KeyError" /\ file_open' = OpenAfterException
                       /\ UNCHANGED enc_i
               /\ UNCHANGED <<out_file, count, faults>>
          ELSE \E wfail \in MayFault, rfail \in MayFault :
               LET newfaults == faults \cup (IF wfail THEN {<<enc_calls, enc_i, "write">>} ELSE {})
                                       \cup (IF rfail THEN {<<enc_calls, enc_i, "release">>} ELSE {})
               IN /\ Cardinality(newfaults) <= MaxFaults
                  /\ faults' = newfaults
                  \* lines 156-158: a failed codes_write is caught with the builder's failures
                  /\ out_file' = IF wfail THEN out_file
                                 ELSE [out_file EXCEPT !.content = Append(@, b.msg)]
                  /\ count' = IF wfail THEN count ELSE count + 1
                  /\ records' = Append(records, [obs |-> obs, built |-> TRUE,
                                                 written |-> ~wfail, msg |-> b.msg])
                  \* lines 160-162: an exception of codes_release leaves the finally clause
                  /\ IF rfail
                     THEN /\ enc_pc' = "raised" /\ enc_exc' = "CodesInternalError"
                          /\ handles' = handles + 1
                          /\ file_open' = OpenAfterException
                          /\ UNCHANGED enc_i
                     ELSE /\ enc_i' = enc_i + 1
                          /\ UNCHANGED <<enc_pc, enc_exc, handles, file_open>>
    /\ UNCHANGED <<enc_type, enc_input, reported, enc_calls, first_file, file_at_call, notencvars>>

Prefixes(s) == {SubSeq(s, 1, k) : k \in 0..Len(s)}

\* lines 149, 163-166: the with block is left, f is closed, the count is logged
EncodeEnd ==
    /\ enc_pc = "loop" /\ enc_i > Len(enc_input)
    /\ file_open' = FALSE
    /\ \E failed \in MayFault :
         IF failed
         THEN \* the flush of close() fails: buffered messages are lost, IOError is re-raised
              /\ enc_pc' = "raised" /\ enc_exc' = "IOError"
              /\ faults' = Fault("close")
              /\ out_file' \in {[out_file EXCEPT !.content = p] : p \in Prefixes(out_file.content)}
              /\ UNCHANGED reported
         ELSE /\ enc_pc' = "done"
              /\ reported' = ReportedCount
              /\ UNCHANGED <<enc_exc, faults, out_file>>
    /\ UNCHANGED <<enc_type, enc_input, enc_i, count, handles, records, enc_calls, first_file,
                   file_at_call, notencvars>>

\* the caller calls encode again with the same list, path and type
EncodeAgain ==
    /\ enc_pc \in {"done", "raised"}
    /\ main_pc = "idle"
    /\ enc_calls < MaxEncodes
    /\ enc_pc' = "ready" /\ enc_exc' = "none"
    /\ first_file' = IF enc_calls = 1 THEN out_file ELSE first_file
    /\ UNCHANGED <<enc_type, enc_input, enc_i, out_file, file_open, count, handles, reported,
                   records, faults, enc_calls, file_at_call, notencvars>>

\* no check call made, no classifier constructed
NoChecks ==
    /\ params = NoParams
    /\ model_file = "missing" /\ model = "None" /\ ml_pc = "new"
    /\ call_obs = NoObs /\ call_result = "none" /\ call_response = "none"
    /\ ncalls = 0

InitEnc ==
    /\ NoExtraction /\ NoChecks /\ NoRerun /\ NoMain /\ Standalone
    /\ enc_pc = "ready" /\ enc_exc = "none"
    /\ enc_type \in ObsTypes
    /\ enc_input \in Batches
    /\ out_file \in {NoFile, StaleFile}
    /\ enc_i = 1 /\ file_open = FALSE
    /\ count = 0 /\ handles = 0 /\ reported = -1 /\ records = <<>> /\ faults = {}
    /\ enc_calls = 0 /\ first_file = NoFile /\ file_at_call = NoFile

NextEnc == EncodeBegin \/ EncodeRecord \/ EncodeEnd \/ EncodeAgain

SpecEnc == InitEnc /\ [][NextEnc]_vars

(***************************************************************************)
(* Properties of BUFREncoder.encode (SpecEnc).                             *)
(***************************************************************************)
EncodeLeft == enc_pc \in {"done", "raised"}

FaultsOfCall(kinds) == {f \in faults : f[1] = enc_calls /\ f[3] \in kinds}

\* C11: encode with an obs_type other than 'surface' and 'upper_air' fails with ValueError
\* before the output file is opened: the file at the path is neither created nor truncated,
\* and no message is built.
C11_UnknownTypeBeforeOpen ==
    (enc_calls >= 1 /\ enc_type \notin {"surface", "upper_air"}) =>
        /\ enc_pc \in {"raised", "ready"}
        /\ enc_pc = "raised" => enc_exc = "ValueError"
        /\ out_file = file_at_call /\ out_file \in {NoFile, StaleFile}
        /\ ~file_open
        /\ records = <<>> /\ handles = 0 /\ count = 0

C11_Witness ==
    /\ enc_type = "synop" /\ enc_pc = "raised" /\ enc_exc = "ValueError"
    /\ Len(enc_input) > 0 /\ out_file = StaleFile

WrittenMessages(recs) == SelectSeq(recs, LAMBDA r : r.written)

\* C12: a failure building one observation's message skips that record only: encode does not
\* abort, and every other observation, whatever its position, whose message is built and
\* written is in the file and counted.
C12_BuildFailureSkipsOneRecord ==
    /\ enc_pc \in {"loop", "done"} =>
         /\ Len(records) = enc_i - 1
         /\ \A k \in 1..Len(records) :
              /\ records[k].obs = enc_input[k]
              /\ records[k].built = Encoder(enc_type, enc_input[k]).built
              /\ records[k].written =
                    (records[k].built /\ <<enc_calls, k, "write">> \notin faults)
         /\ out_file.content = [k \in 1..Len(WrittenMessages(records)) |->
                                   WrittenMessages(records)[k].msg]
         /\ count = Len(out_file.content)
    /\ enc_pc = "done" => Len(records) = Len(enc_input)
    /\ enc_pc = "raised" =>
         \/ enc_exc = "ValueError" /\ enc_type \notin {"surface", "upper_air"}
         \/ FaultsOfCall({"open", "release", "close"}) # {}

C12_Witness ==
    /\ enc_pc = "done" /\ enc_type = "surface" /\ Len(enc_input) = 3
    /\ enc_input[2] = MalformedObs
    /\ ~records[2].built /\ records[1].written /\ records[3].written
    /\ count = 2 /\ Len(out_file.content) = 2

\* C13: encode reports the total count of the messages it encoded, and a call that encodes
\* no message at all completes normally.
C13_ReportsCountZeroIsNormal ==
    /\ enc_pc = "done" =>
         /\ reported = Len(WrittenMessages(records))
         /\ reported = Len(out_file.content)
    /\ (enc_pc = "raised" /\ WrittenMessages(records) = <<>>) =>
         \/ enc_type \notin {"surface", "upper_air"}
         \/ FaultsOfCall({"open", "release", "close"}) # {}

C13_Witness ==
    /\ enc_pc = "done" /\ reported = 0 /\ Len(enc_input) = 2
    /\ enc_input[1] = UpperAirObs /\ enc_type = "surface"

\* C14: when the output file cannot be opened, or writing a message to it fails, the call
\* ends with an IOError propagated to the caller, not with a skipped record.
C14_WriteFailureIsFatal ==
    (EncodeLeft /\ FaultsOfCall({"open", "write"}) # {}) =>
        enc_pc = "raised" /\ enc_exc = "IOError"

\* C15: the handle of the output file is closed on every path out of encode: the normal
\* one, the one after skipped records, and the one on which an exception propagates.
C15_FileClosedOnEveryExit ==
    enc_pc # "loop" => ~file_open

C15_Witness ==
    /\ enc_pc = "raised" /\ enc_exc = "CodesInternalError"
    /\ out_file.exists /\ Len(records) = 2 /\ ~records[1].built
    /\ ~file_open

\* C17: a second encode call with the same list, path and type leaves the file with the
\* content the first call left: the file is truncated on open, never appended to.
C17_SecondCallSameFile ==
    (enc_calls >= 2 /\ EncodeLeft /\ faults = {}) => out_file = first_file

C17_Witness ==
    /\ enc_calls = 2 /\ enc_pc = "done" /\ faults = {}
    /\ Len(out_file.content) = 2 /\ out_file = first_file

(***************************************************************************)
(* SpecRerun: extract_surface_observations_with_stats is called twice on   *)
(* the same reader, file and classifier.  The first call reads each cell   *)
(* and each classifier answer from the environment and records them; the   *)
(* second call reads what the first one read: the file has not changed,    *)
(* and the classifier is a function of the observation.                    *)
(***************************************************************************)
\* the entry of the tape written at the grid point under the loop indices
TapeHere ==
    tape[CHOOSE k \in 1..Len(tape) : tape[k].index = <<t_idx, lat_idx, lon_idx>>]

\* lines 116-118: the classifier is asked when the physical check passed and a model is loaded
Asked(cell) ==
    /\ check_surface_observation(BuildObs(t_idx, lat_idx, lon_idx, cell))
    /\ Truthy(model)

\* lines 104-126 in the first call
ProcessPointRecorded ==
    /\ run = 1
    /\ \E cell \in CellValues, response \in Responses :
         /\ ProcessPointWith(cell, response)
         /\ tape' = Append(tape, [index |-> <<t_idx, lat_idx, lon_idx>>, cell |-> cell,
                                  response |-> IF Asked(cell) THEN response ELSE "unasked"])
    /\ UNCHANGED <<run, first>>

\* lines 104-126 in the second call
ProcessPointReplayed ==
    /\ run = 2
    /\ \E k \in 1..Len(tape) : tape[k].index = <<t_idx, lat_idx, lon_idx>>
    /\ ProcessPointWith(TapeHere.cell, TapeHere.response)
    /\ UNCHANGED rerunvars

\* the caller keeps what the first call returned or raised, and calls again
CallAgain ==
    /\ run = 1 /\ pc \in {"returned", "raised"}
    /\ first' = [pc |-> pc, exc |-> exc, observations |-> observations, stats |-> stats]
    /\ run' = 2
    /\ pc' = "ready" /\ exc' = "none"
    /\ evaluated' = <<>>
    /\ UNCHANGED <<dsvars, acqvars, flowvars,
                   cfgvars, readervars, mlvars, resolved, hours_to_process, t_idx,
                   lat_idx, lon_idx, observations, stats, callvars, tape, encvars, mainvars>>

\* the largest grid extracted twice
MaxSmallGrid == 3

InitRerun ==
    /\ ExtractionInputs /\ NoRerun /\ NoEncode /\ NoMain /\ Standalone
    /\ file_exists
    /\ ds_steps > Len(possible_hours) \/ ds_steps * ds_nlat * ds_nlon <= MaxSmallGrid
    /\ var_map = [surface |-> FullMap]
    /\ params = TestParams

NextRerun ==
    \/ ConstructReader \/ ExtractBegin \/ ProcessPointRecorded \/ ProcessPointReplayed
    \/ ExtractReturn \/ CallAgain

SpecRerun == InitRerun /\ [][NextRerun]_vars

\* C16: extraction is deterministic: two runs on the same grid, base date, QC configuration
\* and ML model end the same way and return the same ordered list and the same stats.
C16_SecondRunSameResult ==
    (run = 2 /\ pc \in {"returned", "raised"}) =>
        /\ pc = first.pc /\ exc = first.exc
        /\ pc = "returned" =>
             /\ observations = first.observations
             /\ stats = first.stats

C16_Witness ==
    /\ run = 2 /\ pc = "returned"
    /\ Len(observations) >= 1 /\ observations = first.observations
    /\ stats.obs_fail_physical_qc >= 1 /\ stats.obs_fail_ml_qc >= 1

(***************************************************************************)
(* SpecMain: main() of bin/process_and_visualize.py, from the check of the *)
(* input file to the end of the run.  Extraction and encoding are the      *)
(* actions above, taken at the place main() calls them.                    *)
(***************************************************************************)
\* the largest grid a whole run is followed on
MaxMainPoints == 2

\* the branch taken whatever the list holds
MutAlways_IfObservations == TRUE

\* line 58: if observations
IfObservations == Len(observations) > 0

\* lines 38-40: a missing input file ends the run with exit status 1
MainCheckInput ==
    /\ main_pc = "start"
    /\ main_pc' = IF ~file_exists THEN "exit1" ELSE "extract"
    /\ UNCHANGED <<dsvars, acqvars, flowvars,
                   cfgvars, readervars, mlvars, loopvars, callvars, rerunvars,
                   encvars, plot>>

\* lines 53-54: the reader is constructed and asked for the observations
MainExtract ==
    /\ main_pc = "extract"
    /\ ConstructReader \/ ExtractBegin \/ ProcessPoint \/ ExtractReturn

\* line 58: the list decides between encoding and the message of line 70
MainBranch ==
    /\ main_pc = "extract" /\ pc = "returned"
    /\ IF IfObservations
       THEN /\ main_pc' = "encode"
            /\ enc_pc' = "ready" /\ enc_input' = observations /\ enc_type' = "surface"
       ELSE /\ main_pc' = "done"
            /\ UNCHANGED <<enc_pc, enc_input, enc_type>>
    /\ UNCHANGED <<dsvars, acqvars, flowvars,
                   cfgvars, readervars, mlvars, loopvars, callvars, rerunvars,
                   enc_exc, enc_i, out_file, file_open, count, handles, reported, records,
                   faults, enc_calls, first_file, file_at_call, plot>>

\* lines 59-60
MainEncode ==
    /\ main_pc = "encode"
    /\ EncodeBegin \/ EncodeRecord \/ EncodeEnd

\* lines 63-68: the plot is generated once encode has returned
MainVisualize ==
    /\ main_pc = "encode" /\ enc_pc = "done"
    /\ plot' = TRUE
    /\ main_pc' = "done"
    /\ UNCHANGED <<dsvars, acqvars, flowvars,
                   cfgvars, readervars, mlvars, loopvars, callvars, rerunvars, encvars>>

\* an exception of extraction or of encode leaves main()
MainRaised ==
    /\ \/ main_pc = "extract" /\ pc = "raised"
       \/ main_pc = "encode" /\ enc_pc = "raised"
    /\ main_pc' = "failed"
    /\ UNCHANGED <<dsvars, acqvars, flowvars,
                   cfgvars, readervars, mlvars, loopvars, callvars, rerunvars,
                   encvars, plot>>

InitMain ==
    /\ ExtractionInputs /\ NoRerun /\ Standalone
    /\ ds_steps > Len(possible_hours) \/ ds_steps * ds_nlat * ds_nlon <= MaxMainPoints
    /\ var_map = [surface |-> FullMap]
    /\ params = TestParams
    /\ enc_pc = "idle" /\ enc_exc = "none" /\ enc_type = "surface" /\ enc_input = <<>>
    /\ enc_i = 1 /\ out_file \in {NoFile, StaleFile} /\ file_open = FALSE
    /\ count = 0 /\ handles = 0 /\ reported = -1 /\ records = <<>> /\ faults = {}
    /\ enc_calls = 0 /\ first_file = NoFile /\ file_at_call = NoFile
    /\ main_pc = "start" /\ plot = FALSE

NextMain ==
    \/ MainCheckInput \/ MainExtract \/ MainBranch \/ MainEncode \/ MainVisualize
    \/ MainRaised

SpecMain == InitMain /\ [][NextMain]_vars

\* C20: in main(), a run with no accepted observation ends successfully with encoding and
\* visualization skipped; with at least one accepted observation, encoding runs, and runs
\* before visualization.
C20_EmptySkipsElseEncodeThenPlot ==
    /\ (pc = "returned" /\ main_pc # "extract" /\ Len(observations) = 0) =>
         /\ main_pc = "done"
         /\ enc_pc = "idle" /\ enc_calls = 0 /\ out_file \in {NoFile, StaleFile}
         /\ ~plot
    /\ (pc = "returned" /\ main_pc # "extract" /\ Len(observations) >= 1) =>
         /\ main_pc \in {"encode", "done", "failed"}
         /\ enc_input = observations /\ enc_type = "surface"
         /\ main_pc = "done" => plot
         /\ main_pc = "failed" => enc_pc = "raised"
    /\ plot => (enc_pc = "done" /\ enc_calls = 1 /\ Len(records) = Len(observations))

C20_Witness ==
    /\ main_pc = "done" /\ pc = "returned"
    /\ Len(evaluated) = 2 /\ observations = <<>>
    /\ out_file = StaleFile /\ ~plot

(***************************************************************************)
(* Properties of the counters and of the order of the checks (Spec).       *)
(***************************************************************************)
\* C22 as stated: initial_count is incremented point by point, so inside the loop it
\* equals the number of grid points visited so far, and at the end the number visited.
C22_InitialCountIsVisitedSoFar ==
    pc \in {"loop", "returned"} => stats.obs_initial_count = Len(evaluated)

\* C22: initial_count is set once, before the loops, to the number of grid points of the
\* file; it keeps that value through the loop, and at the end it equals the number of
\* points visited.
C22_InitialCountSetBeforeLoop ==
    /\ pc \in {"loop", "returned"} => stats.obs_initial_count = ds_steps * ds_nlat * ds_nlon
    /\ pc = "returned" => stats.obs_initial_count = Len(evaluated)

C22_Witness ==
    /\ pc = "loop" /\ Len(evaluated) = 1
    /\ stats.obs_initial_count = 3

MlInvocations == Cardinality({k \in 1..Len(evaluated) : evaluated[k].ml # "not_run"})

\* C23: the ML check is invoked only for a point that passed the physical check, after that
\* check: a point the physical check rejected never reaches the ML check, and the number
\* of ML check invocations equals obs_pass_physical_qc.
C23_MlOnlyAfterPhysicalPass ==
    pc \in {"loop", "returned"} =>
        /\ \A k \in 1..Len(evaluated) :
              /\ evaluated[k].physical = check_surface_observation(evaluated[k].obs)
              /\ evaluated[k].ml # "not_run" <=> evaluated[k].physical
        /\ MlInvocations = stats.obs_pass_physical_qc

C23_Witness ==
    /\ pc = "returned" /\ Len(evaluated) = 3
    /\ MlInvocations = 2 /\ stats.obs_fail_physical_qc = 1
    /\ ~evaluated[2].physical /\ evaluated[2].ml = "not_run"

Counters == DOMAIN EmptyStats

\* the counters a point's checks raise by one, from one state to the next
RaisedByOne == {c \in Counters : stats'[c] = stats[c] + 1}

\* C26: no counter of stats ever decreases during an extraction, and each processed grid
\* point raises by one exactly one of fail_physical, pass_ml and fail_ml, and pass_physical
\* exactly when the point reached the ML stage.
C26_CountersOnlyGrow ==
    [][ /\ \A c \in Counters : stats'[c] >= stats[c]
        /\ Len(evaluated') = Len(evaluated) + 1 =>
             LET e == evaluated'[Len(evaluated')]
             IN /\ \A c \in Counters : stats'[c] \in {stats[c], stats[c] + 1}
                /\ RaisedByOne = IF ~e.physical THEN {"obs_fail_physical_qc"}
                                 ELSE IF e.ml = "true"
                                 THEN {"obs_pass_physical_qc", "obs_pass_ml_qc"}
                                 ELSE {"obs_pass_physical_qc", "obs_fail_ml_qc"}
      ]_vars

C26_Witness ==
    /\ pc = "returned" /\ Len(evaluated) = 4
    /\ stats.obs_fail_physical_qc = 2 /\ stats.obs_pass_ml_qc = 1 /\ stats.obs_fail_ml_qc = 1

(***************************************************************************)
(* Further properties of BUFREncoder.encode (SpecEnc).                     *)
(***************************************************************************)
\* lines 204-213: the data keys _encode_upper_air sets, in the order it sets them
UpperAirKeys ==
    <<"time", "latitude", "longitude", "delayedDescriptorReplicationFactor",
      "pressure", "airTemperature", "uComponentOfWind", "vComponentOfWind">>

\* lines 204-213: what the n-th of these assignments reads is there
UpperAirStepOk(obs, n) ==
    CASE n = 1 -> "time" \in DOMAIN obs
      [] n = 2 -> "latitude" \in DOMAIN obs
      [] n = 3 -> "longitude" \in DOMAIN obs
      [] n = 4 -> TRUE
      [] n = 5 -> \A k \in 1..Len(obs.profile) : "pressure" \in DOMAIN obs.profile[k]
      [] n = 6 -> \A k \in 1..Len(obs.profile) : "temperature" \in DOMAIN obs.profile[k]
      [] n = 7 -> \A k \in 1..Len(obs.profile) : "u_wind" \in DOMAIN obs.profile[k]
      [] n = 8 -> \A k \in 1..Len(obs.profile) : "v_wind" \in DOMAIN obs.profile[k]

\* lines 200-214: the data keys set on the handle when _encode_upper_air returns or raises
UpperAirKeysSet(obs) ==
    IF "profile" \notin DOMAIN obs THEN {}
    ELSE {UpperAirKeys[n] : n \in {m \in 1..Len(UpperAirKeys) :
                                      \A j \in 1..m : UpperAirStepOk(obs, j)}}

\* lines 210-213: the length of the array the list comprehension over the profile can give
ArrayLength(obs, key) == Cardinality({k \in 1..Len(obs.profile) : key \in DOMAIN obs.profile[k]})

\* the four arrays of a sounding do not all have the length of its profile
Mismatched(obs) ==
    /\ "profile" \in DOMAIN obs
    /\ \E key \in LevelKeys : ArrayLength(obs, key) # Len(obs.profile)

\* C24: for an upper-air observation the lengths of the four profile arrays are validated
\* equal to each other and to the profile length before the message is built: a mismatch
\* is a build failure of that record only, detected before any message data is set.
C24_MismatchDetectedBeforeData ==
    (enc_type = "upper_air" /\ enc_pc \in {"loop", "done"}) =>
        \A k \in 1..Len(records) :
            Mismatched(records[k].obs) =>
                /\ ~records[k].built
                /\ UpperAirKeysSet(records[k].obs) = {}

\* C28: every BUFR message handle created during encode is released before encode
\* returns, whether the record was written or its build failed after the handle was made.
C28_EveryHandleReleased ==
    (enc_pc = "done" /\ faults = {}) => handles = 0

BuiltMessages(obs_type, obss) ==
    LET built == SelectSeq(obss, LAMBDA o : Encoder(obs_type, o).built)
    IN [k \in 1..Len(built) |-> Encoder(obs_type, built[k]).msg]

Skipped == Cardinality({k \in 1..Len(records) : ~records[k].written})

\* C29: after encode completes, the file holds one message per successfully built
\* observation of the input list, in input order and none twice, and the number of
\* messages written plus the number of records skipped is the length of the list.
C29_OneMessagePerBuiltObservation ==
    enc_pc = "done" =>
        /\ out_file.content = BuiltMessages(enc_type, enc_input)
        /\ Len(out_file.content) + Skipped = Len(enc_input)

(***************************************************************************)
(* Frame property of a whole run (SpecMain).                               *)
(***************************************************************************)
\* C25: an observation is never changed after it is built: the physical check, the ML
\* check, the append to the result list and the encoding leave every field as built,
\* and the checks change neither the QC configuration nor the loaded model.
C25_ObservationsNeverMutated ==
    [][ /\ params' = params /\ model' = model
        /\ \A k \in 1..Len(evaluated) :
              k <= Len(evaluated') /\ evaluated'[k].obs = evaluated[k].obs
        /\ \A k \in 1..Len(observations) :
              k <= Len(observations') /\ observations'[k] = observations[k]
        /\ Len(observations') > Len(observations) =>
              observations'[Len(observations')] = evaluated'[Len(evaluated')].obs
        /\ enc_pc # "idle" => (enc_input' = enc_input /\ enc_input = observations)
        /\ \A k \in 1..Len(records') : records'[k].obs = observations[k]
      ]_vars

C25_Witness ==
    /\ main_pc = "done" /\ plot
    /\ Len(evaluated) = 2 /\ Len(observations) = 2 /\ Len(records) = 2
    /\ records[2].obs = evaluated[2].obs /\ records[2].written

(***************************************************************************)
(* Data acquisition: ECMWFDataGenerator of utils/ecmwf_data_retrieval.py   *)
(* (the pipeline version, used by bin/acquire_data.py) and                 *)
(* ECMWFTestDataGenerator of src/ecmwf_data_retrieval.py (the standalone   *)
(* version).  The CDS service, the file system and the generation of the   *)
(* synthetic file may fail: the environment chooses.                       *)
(***************************************************************************)
\* the number of retrieve_surface_data calls made on one generator
MaxRetrievals == 2

\* utils/ecmwf_data_retrieval.py:27-41
ECMWFDataGenerator_init(use_real, api, init_ok) ==
    IF use_real /\ api /\ init_ok THEN "client" ELSE "None"

\* src/ecmwf_data_retrieval.py:30-37
ECMWFTestDataGenerator_init(api, init_ok) ==
    IF api /\ init_ok THEN "client" ELSE "None"

\* the real retrieval chosen on the request alone
MutRequestOnly_UseReal(version, use_real, client) == use_real

\* utils/ecmwf_data_retrieval.py:45 (if self.cds_client) and
\* src/ecmwf_data_retrieval.py:41 (if use_real_data and self.cds_client)
UseReal(version, use_real, client) ==
    IF version = "pipeline" THEN client # "None"
    ELSE use_real /\ client # "None"

\* what acquisition does not touch
notacqvars == <<gridvars, flowvars, cfgvars, readervars, mlvars, loopvars, callvars, rerunvars,
                encvars, mainvars>>

\* __init__ of the generator
AcqConstruct ==
    /\ acq_pc = "new"
    /\ \E init_ok \in BOOLEAN :
         cds_client' = IF acq_version = "pipeline"
                       THEN ECMWFDataGenerator_init(use_real_data, api_available, init_ok)
                       ELSE ECMWFTestDataGenerator_init(api_available, init_ok)
    /\ acq_pc' = "constructed"
    /\ UNCHANGED <<acq_version, use_real_data, api_available, acq_exc, nc_kind, temp_file,
                   acq_calls, cds_uninit, real_failed, file_exists, notacqvars>>

\* retrieve_surface_data: the choice between the real retrieval and the synthetic file
AcqDispatch ==
    /\ acq_pc = "constructed"
    /\ acq_calls' = acq_calls + 1
    /\ real_failed' = FALSE /\ acq_exc' = "none"
    /\ acq_pc' = IF UseReal(acq_version, use_real_data, cds_client) THEN "download"
                 ELSE "synthetic"
    /\ UNCHANGED <<acq_version, use_real_data, api_available, cds_client, nc_kind, temp_file,
                   cds_uninit, file_exists, notacqvars>>

\* _retrieve_real_surface_data: self.cds_client.retrieve(...), to the '.download' path in
\* the pipeline version and to output_path in the standalone one
AcqDownload ==
    /\ acq_pc = "download"
    /\ IF cds_client = "None"
       THEN \* AttributeError of None.retrieve, caught by except Exception
            /\ cds_uninit' = TRUE /\ real_failed' = TRUE
            /\ acq_pc' = "fallback"
            /\ UNCHANGED <<nc_kind, temp_file, file_exists>>
       ELSE /\ UNCHANGED cds_uninit
            /\ \E raised \in BOOLEAN, written \in BOOLEAN :
                 /\ real_failed' = raised
                 /\ IF acq_version = "pipeline"
                    THEN /\ temp_file' = written
                         /\ acq_pc' = IF raised THEN "fallback" ELSE "move"
                         /\ UNCHANGED <<nc_kind, file_exists>>
                    ELSE /\ raised \/ written
                         /\ nc_kind' = IF ~written THEN nc_kind
                                       ELSE IF raised THEN "partial" ELSE "real"
                         /\ file_exists' = (file_exists \/ written)
                         /\ acq_pc' = IF raised THEN "fallback" ELSE "done"
                         /\ UNCHANGED temp_file
    /\ UNCHANGED <<acq_version, use_real_data, api_available, cds_client, acq_exc, acq_calls,
                   notacqvars>>

\* utils/ecmwf_data_retrieval.py:73: shutil.move(temp_path, output_path)
AcqMove ==
    /\ acq_pc = "move"
    /\ \E move_ok \in BOOLEAN :
         IF temp_file /\ move_ok
         THEN /\ nc_kind' = "real" /\ file_exists' = TRUE /\ temp_file' = FALSE
              /\ acq_pc' = "cleanup"
              /\ UNCHANGED real_failed
         ELSE /\ real_failed' = TRUE
              /\ acq_pc' = "fallback"
              /\ UNCHANGED <<nc_kind, file_exists, temp_file>>
    /\ UNCHANGED <<acq_version, use_real_data, api_available, cds_client, acq_exc, acq_calls,
                   cds_uninit, notacqvars>>

\* _generate_synthetic_surface_data: nc.Dataset(output_path, 'w') and its variables
AcqGenerate(after_ok, after_failure) ==
    \E generated \in BOOLEAN :
       /\ nc_kind' = IF generated THEN "synthetic" ELSE "partial"
       /\ file_exists' = TRUE
       /\ acq_exc' = IF generated THEN acq_exc ELSE "OSError"
       /\ acq_pc' = IF generated THEN after_ok ELSE after_failure

\* the except clause of the real retrieval: the synthetic file instead
AcqFallback ==
    /\ acq_pc = "fallback"
    /\ IF acq_version = "pipeline" THEN AcqGenerate("cleanup", "cleanup")
       ELSE AcqGenerate("done", "raised")
    /\ UNCHANGED <<acq_version, use_real_data, api_available, cds_client, temp_file, acq_calls,
                   cds_uninit, real_failed, notacqvars>>

\* retrieve_surface_data, no real retrieval: the synthetic file
AcqSynthetic ==
    /\ acq_pc = "synthetic"
    /\ AcqGenerate("done", "raised")
    /\ UNCHANGED <<acq_version, use_real_data, api_available, cds_client, temp_file, acq_calls,
                   cds_uninit, real_failed, notacqvars>>

\* utils/ecmwf_data_retrieval.py:80-83: the finally clause removes the temporary file
TempAfterFinally == FALSE

AcqCleanup ==
    /\ acq_pc = "cleanup"
    /\ temp_file' = TempAfterFinally
    /\ acq_pc' = IF acq_exc = "none" THEN "done" ELSE "raised"
    /\ UNCHANGED <<acq_version, use_real_data, api_available, cds_client, acq_exc, nc_kind,
                   acq_calls, cds_uninit, real_failed, file_exists, notacqvars>>

\* retrieve_surface_data is called again on the same generator and path
AcqAgain ==
    /\ acq_pc \in {"done", "raised"}
    /\ task = [t \in TaskNames |-> "unloaded"]
    /\ acq_calls < MaxRetrievals
    /\ acq_pc' = "constructed"
    /\ \E again \in (IF acq_version = "pipeline" THEN {use_real_data} ELSE BOOLEAN) :
         use_real_data' = again
    /\ UNCHANGED <<acq_version, api_available, cds_client, acq_exc, nc_kind, temp_file,
                   acq_calls, cds_uninit, real_failed, file_exists, notacqvars>>

InitAcq ==
    /\ NoChecks /\ NoRerun /\ NoEncode /\ NoMain /\ NoFlow
    /\ file_exists \in BOOLEAN
    /\ ds_variables = {} /\ ds_steps = 0 /\ ds_nlat = 0 /\ ds_nlon = 0
    /\ var_map = [surface |-> FullMap] /\ base_date = 0
    /\ reader = "unconstructed"
    /\ pc = "idle" /\ exc = "none"
    /\ resolved = <<>> /\ hours_to_process = <<>>
    /\ t_idx = 0 /\ lat_idx = 0 /\ lon_idx = 0
    /\ observations = <<>> /\ stats = EmptyStats /\ evaluated = <<>>
    /\ acq_version \in {"pipeline", "standalone"}
    /\ use_real_data \in BOOLEAN
    /\ api_available \in BOOLEAN
    /\ cds_client = "None" /\ acq_pc = "new" /\ acq_exc = "none"
    /\ nc_kind = IF file_exists THEN "old" ELSE "none"
    /\ temp_file = FALSE /\ acq_calls = 0 /\ cds_uninit = FALSE /\ real_failed = FALSE

NextAcq ==
    \/ AcqConstruct \/ AcqDispatch \/ AcqDownload \/ AcqMove \/ AcqFallback \/ AcqSynthetic
    \/ AcqCleanup \/ AcqAgain

SpecAcq == InitAcq /\ [][NextAcq]_vars

(***************************************************************************)
(* Properties of data acquisition (SpecAcq).                               *)
(***************************************************************************)
AcqEnded == acq_pc \in {"done", "raised"}

\* C27: retrieve_surface_data leaves a synthetic file at the output path whenever real data
\* was not requested, the CDS client is unavailable or the real retrieval raised; a failed
\* download alone never makes the call fail; the CDS client is never invoked when it was
\* not initialised; and in the pipeline version no '.download' file is left when the call
\* has ended.
C27_SyntheticFallback ==
    /\ ~cds_uninit
    /\ acq_pc = "done" =>
         /\ file_exists /\ nc_kind \in {"real", "synthetic"}
         /\ (~use_real_data \/ cds_client = "None" \/ real_failed) => nc_kind = "synthetic"
    /\ acq_pc = "raised" => (acq_exc = "OSError" /\ nc_kind = "partial")
    /\ (acq_version = "pipeline" /\ AcqEnded) => ~temp_file

C27_Witness ==
    /\ acq_version = "pipeline" /\ acq_pc = "done"
    /\ use_real_data /\ cds_client = "client" /\ real_failed
    /\ nc_kind = "synthetic" /\ ~temp_file

(***************************************************************************)
(* SpecFlow: the suite c3s_ingestion_pipeline of ecflow/pipeline.py.  The  *)
(* ecFlow server submits a queued task once its trigger expression holds;  *)
(* the job of acquire is bin/acquire_data.py (the pipeline version of the  *)
(* acquisition), the job of process_and_visualize is main() above.  The    *)
(* shape of the file acquisition writes is fixed from the start; its cells *)
(* are read when the loop reaches them, as in Spec.                        *)
(***************************************************************************)
\* the largest grid the suite is followed on
MaxFlowPoints == 1

\* process_and_visualize triggered on start, as acquire is
MutOnStart_Trigger(t) ==
    t = "start" \/ task["start"] = "complete"

\* ecflow/pipeline.py:27-33: start has no trigger, acquire waits for start == complete,
\* process_and_visualize for acquire == complete
Trigger(t) ==
    CASE t = "start" -> TRUE
      [] t = "acquire" -> task["start"] = "complete"
      [] t = "process_and_visualize" -> task["acquire"] = "complete"

\* what the suite's scheduling does not touch
notflowvars == <<dsvars, cfgvars, readervars, mlvars, loopvars, callvars, rerunvars, encvars>>

\* the server submits a queued task whose trigger holds
FlowSubmit ==
    /\ \E t \in TaskNames :
         /\ task[t] = "queued" /\ Trigger(t)
         /\ task' = [task EXCEPT ![t] = "submitted"]
    /\ UNCHANGED <<notflowvars, acqvars, mainvars>>

\* the job of a submitted task starts
FlowActive ==
    /\ \E t \in TaskNames :
         /\ task[t] = "submitted"
         /\ task' = [task EXCEPT ![t] = "active"]
         /\ acq_pc' = IF t = "acquire" THEN "new" ELSE acq_pc
         /\ main_pc' = IF t = "process_and_visualize" THEN "start" ELSE main_pc
    /\ UNCHANGED <<notflowvars, acq_version, use_real_data, api_available, cds_client, acq_exc,
                   nc_kind, temp_file, acq_calls, cds_uninit, real_failed, plot>>

\* bin/acquire_data.py:33-34, while the task acquire is active
FlowAcquire ==
    /\ task["acquire"] = "active"
    /\ \/ AcqConstruct \/ AcqDispatch \/ AcqDownload \/ AcqMove \/ AcqFallback
       \/ AcqSynthetic \/ AcqCleanup

\* bin/process_and_visualize.py, while the task process_and_visualize is active
FlowProcess ==
    /\ task["process_and_visualize"] = "active"
    /\ NextMain

\* the job of an active task has ended: exit status 0 completes it, another aborts it
JobEnded(t) ==
    CASE t = "start" -> "complete"
      [] t = "acquire" -> IF acq_pc = "done" THEN "complete"
                          ELSE IF acq_pc = "raised" THEN "aborted" ELSE "active"
      [] t = "process_and_visualize" ->
            IF main_pc = "done" THEN "complete"
            ELSE IF main_pc \in {"exit1", "failed"} THEN "aborted" ELSE "active"

FlowEnd ==
    /\ \E t \in TaskNames :
         /\ task[t] = "active" /\ JobEnded(t) # "active"
         /\ task' = [task EXCEPT ![t] = JobEnded(t)]
    /\ UNCHANGED <<notflowvars, acqvars, mainvars>>

InitFlow ==
    /\ NoRerun /\ NoEncode /\ NoMain
    /\ task = [t \in TaskNames |-> "queued"]
    /\ file_exists \in BOOLEAN
    /\ ds_variables \in DatasetNames
    /\ ds_steps \in 0..MaxSteps /\ ds_nlat \in 0..MaxLat /\ ds_nlon \in 0..MaxLon
    /\ ds_steps > Len(possible_hours) \/ ds_steps * ds_nlat * ds_nlon <= MaxFlowPoints
    /\ var_map = [surface |-> FullMap] /\ base_date \in BaseDates
    /\ params = TestParams
    /\ model_file \in {"missing", "classifier"}
    /\ model = MLQualityControl_init(model_file).model
    /\ reader = "unconstructed"
    /\ pc = "ready" /\ exc = "none"
    /\ resolved = <<>> /\ hours_to_process = <<>>
    /\ t_idx = 0 /\ lat_idx = 0 /\ lon_idx = 0
    /\ observations = <<>> /\ stats = EmptyStats /\ evaluated = <<>>
    /\ call_obs = NoObs /\ call_result = "none" /\ call_response = "none"
    /\ ml_pc = "constructed" /\ ncalls = 0
    /\ acq_version = "pipeline"
    /\ use_real_data \in BOOLEAN /\ api_available \in BOOLEAN
    /\ cds_client = "None" /\ acq_pc = "idle" /\ acq_exc = "none"
    /\ nc_kind = IF file_exists THEN "old" ELSE "none"
    /\ temp_file = FALSE /\ acq_calls = 0 /\ cds_uninit = FALSE /\ real_failed = FALSE

NextFlow == FlowSubmit \/ FlowActive \/ FlowAcquire \/ FlowProcess \/ FlowEnd

SpecFlow == InitFlow /\ [][NextFlow]_vars

Started(t) == task[t] \in {"submitted", "active", "complete", "aborted"}

\* C21: in the suite, process_and_visualize can start only after acquire is complete, and
\* acquire only after start is complete: processing never begins while the acquisition is
\* still running or has not completed.
C21_TasksStartOnCompletion ==
    /\ Started("process_and_visualize") => task["acquire"] = "complete"
    /\ Started("acquire") => task["start"] = "complete"
    /\ main_pc # "idle" => (task["acquire"] = "complete" /\ acq_pc = "done")
    /\ acq_pc \notin {"idle", "done"} => (main_pc = "idle" /\ pc = "ready")

C21_Witness ==
    /\ task["process_and_visualize"] = "active" /\ main_pc = "extract" /\ pc = "loop"
    /\ task["acquire"] = "complete" /\ nc_kind = "synthetic"
====
